---------------------------- MODULE Spec2Model ----------------------------
(***************************************************************************)
(* A model of sqlite3_db.py: the SQLite3DB handle (connection lifecycle,   *)
(* statement execution, SQL text builders) over an abstract sqlite3        *)
(* engine.                                                                 *)
(*                                                                         *)
(* SQL text is a sequence of pieces.  A piece is a word, a quote, a        *)
(* parenthesis, a comma or one space; the code's slices [:-2] always cut   *)
(* a comma and a space, which are one piece each.  The engine reads a      *)
(* text through Lex (spaces dropped) and Parse.                            *)
(*                                                                         *)
(* The engine is sqlite3 as the handle uses it: a statement fails when it  *)
(* does not parse, names a missing table or column, or is given the wrong  *)
(* number of bindings.  Its effect is applied to the database when it is   *)
(* executed; isolation and locking between several connections to one     *)
(* file are not modelled.                                                  *)
(***************************************************************************)
EXTENDS Integers, Sequences, FiniteSets, TLC

\* Bounds of the model.
MaxConns == 3
MaxRows == 2

\* ------------------------------------------------------------ Python values
NoneVal == "<None>"
NoExc == "none"

MEMORY == ":memory:"
FILEURI == "f.db"
BADURI == "/nonexistent/x.db"
GoodUris == {MEMORY, FILEURI}
Uris == GoodUris \cup {BADURI}

Tables == {"t"}
Columns == {"a", "b"}
Types == {"text"}
Frags == {"a=1", "b=2", "type='table'", "name=?"}
MASTER == "sqlite_master"

SP == " "
COMMA == ","
LP == "("
RP == ")"
SQ == "'"
DQ == "\""
QM == "?"

\* str.format of one value: None prints as None, the empty string as nothing.
Fmt(x) == IF x = NoneVal THEN <<"None">> ELSE IF x = "" THEN <<>> ELSE <<x>>

\* s[:-2]
DropLast2(s) == SubSeq(s, 1, Len(s) - 2)

\* What a call gives back: the value returned, by its Python type.
RetNone == [kind |-> "None"]
\* A cursor is returned with the row fetchone gives next on it.
RetCursor(row) == [kind |-> "Cursor", row |-> row]
RetConnection(c) == [kind |-> "Connection", c |-> c]
RetBool(b) == [kind |-> "bool", b |-> b]
RetInt(n) == [kind |-> "int", n |-> n]
RetStr(s) == [kind |-> "str", s |-> s]

\* The outcome of a call: the state it leaves, the exception it raised (or
\* none) and the value it returned.
Ok(st, ret) == [st |-> st, exc |-> NoExc, ret |-> ret]
Raise(st, exc) == [st |-> st, exc |-> exc, ret |-> RetNone]

\* An exception of r propagates; otherwise the code goes on with K(r).
Then(r, K(_)) == IF r.exc # NoExc THEN r ELSE K(r)

\* An exception of r propagates; otherwise the method returns ret.
Returning(r, ret) == IF r.exc # NoExc THEN r ELSE Ok(r.st, ret)

\* ------------------------------------------------------------ the engine
Min(S) == CHOOSE x \in S : \A y \in S : x <= y

Lex(sql) == SelectSeq(sql, LAMBDA p : p # SP)

Positions(toks, w) == {i \in 1..Len(toks) : toks[i] = w}

\* The first place of piece w in toks, 0 when it has none.
First(toks, w) == IF Positions(toks, w) = {} THEN 0 ELSE Min(Positions(toks, w))

\* toks cut at its commas.
RECURSIVE SplitComma(_)
SplitAt(toks, i) ==
  IF i = 0 THEN <<toks>>
  ELSE <<SubSeq(toks, 1, i - 1)>> \o SplitComma(SubSeq(toks, i + 1, Len(toks)))
SplitComma(toks) == SplitAt(toks, First(toks, COMMA))

SyntaxError == [k |-> "syntax"]

\* [where <frag> {(and|or) <frag>}]
IsWhere(rest) ==
  \/ rest = <<>>
  \/ /\ Len(rest) >= 2
     /\ Len(rest) % 2 = 0
     /\ rest[1] = "where"
     /\ \A i \in 2..Len(rest) :
          IF i % 2 = 0 THEN rest[i] \in Frags ELSE rest[i] \in {"and", "or"}

IsColDef(g) ==
  /\ Len(g) = 4
  /\ g[1] = SQ /\ g[2] \in Columns /\ g[3] = SQ /\ g[4] \in Types

IsQuotedCol(g) == Len(g) = 3 /\ g[1] = SQ /\ g[2] \in Columns /\ g[3] = SQ

IsSelectCol(g) ==
  \/ g = <<"*">>
  \/ g = <<"count(*)">>
  \/ Len(g) = 3 /\ g[1] = DQ /\ g[2] \in Columns /\ g[3] = DQ

IsAssign(g) ==
  /\ Len(g) \in {6, 7}
  /\ g[1] = SQ /\ g[2] \in Columns /\ g[3] = SQ /\ g[4] = "="
  /\ g[5] = SQ /\ g[Len(g)] = SQ

Names(gs) == [i \in 1..Len(gs) |-> gs[i][2]]

\* CREATE TABLE <table> ( '<column>' <type> {, '<column>' <type>} )
CreateStmt(toks, gs) ==
  IF /\ Len(toks) >= 5
     /\ toks[3] \in Tables /\ toks[4] = LP /\ toks[Len(toks)] = RP
     /\ \A i \in 1..Len(gs) : IsColDef(gs[i])
  THEN [k |-> "create", t |-> toks[3], cols |-> Names(gs)]
  ELSE SyntaxError
ParseCreate(toks) == CreateStmt(toks, SplitComma(SubSeq(toks, 5, Len(toks) - 1)))

\* DROP TABLE <table>
ParseDrop(toks) ==
  IF Len(toks) = 3 /\ toks[3] \in Tables
  THEN [k |-> "drop", t |-> toks[3]]
  ELSE SyntaxError

\* insert into <table> ( '<column>' {, '<column>'} ) VALUES ( ? {, ?} )
InsertStmt(toks, j, cs, qs) ==
  IF /\ Len(toks) >= 4 /\ toks[3] \in Tables /\ toks[4] = LP
     /\ j > 4 /\ Len(toks) >= j + 3
     /\ toks[j + 1] = "VALUES" /\ toks[j + 2] = LP /\ toks[Len(toks)] = RP
     /\ \A i \in 1..Len(cs) : IsQuotedCol(cs[i])
     /\ \A i \in 1..Len(qs) : qs[i] = <<QM>>
  THEN [k |-> "insert", t |-> toks[3], cols |-> Names(cs), nvals |-> Len(qs)]
  ELSE SyntaxError
InsertAt(toks, j) ==
  InsertStmt(toks, j, SplitComma(SubSeq(toks, 5, j - 1)),
             SplitComma(SubSeq(toks, j + 3, Len(toks) - 1)))
ParseInsert(toks) == InsertAt(toks, First(toks, RP))

\* select <column> {, <column>} from <table> [where ...]
SelectStmt(toks, f, gs) ==
  IF /\ f >= 3 /\ Len(toks) >= f + 1
     /\ toks[f + 1] \in Tables \cup {MASTER}
     /\ \A i \in 1..Len(gs) : IsSelectCol(gs[i])
     /\ IsWhere(SubSeq(toks, f + 2, Len(toks)))
  THEN [k |-> "select", t |-> toks[f + 1], counting |-> (gs[1] = <<"count(*)">>)]
  ELSE SyntaxError
SelectAt(toks, f) == SelectStmt(toks, f, SplitComma(SubSeq(toks, 2, f - 1)))
ParseSelect(toks) == SelectAt(toks, First(toks, "from"))

\* update <table> set '<column>' = '<value>' {, ...} [where ...]
UpdateStmt(toks, w, gs) ==
  IF /\ Len(toks) >= 3 /\ toks[2] \in Tables /\ toks[3] = "set"
     /\ \A i \in 1..Len(gs) : IsAssign(gs[i])
     /\ IsWhere(SubSeq(toks, w, Len(toks)))
  THEN [k |-> "update", t |-> toks[2], cols |-> Names(gs)]
  ELSE SyntaxError
UpdateAt(toks, w) == UpdateStmt(toks, w, SplitComma(SubSeq(toks, 4, w - 1)))
ParseUpdate(toks) ==
  UpdateAt(toks, IF First(toks, "where") = 0 THEN Len(toks) + 1
                 ELSE First(toks, "where"))

ParseToks(toks) ==
  IF Len(toks) < 2 THEN SyntaxError
  ELSE IF toks[1] = "CREATE" /\ toks[2] = "TABLE" THEN ParseCreate(toks)
  ELSE IF toks[1] = "DROP" /\ toks[2] = "TABLE" THEN ParseDrop(toks)
  ELSE IF toks[1] = "insert" /\ toks[2] = "into" THEN ParseInsert(toks)
  ELSE IF toks[1] = "select" THEN ParseSelect(toks)
  ELSE IF toks[1] = "update" THEN ParseUpdate(toks)
  ELSE SyntaxError

Parse(sql) == ParseToks(Lex(sql))

\* The number of ? placeholders of a statement.
NumBindings(sql) == Cardinality(Positions(sql, QM) \cup Positions(sql, "name=?"))

\* A table of a database: whether it exists, its column names, its row count.
NoTable == [exists |-> FALSE, cols |-> <<>>, rows |-> 0]
EmptyDb == [t \in Tables |-> NoTable]

\* What fetchone returns next on the cursor: None, or a row with a first cell.
NoRow == [none |-> TRUE, first |-> 0]
Row(n) == [none |-> FALSE, first |-> n]
\* The first cell of a row that is not a count.
TextCell == 0 - 1

Called(S, f, c) == [S EXCEPT !.log = Append(@, [f |-> f, c |-> c])]

\* sqlite3.connect(uri): connection number n.  An in-memory URI is a database
\* of its own per connection; a file is one database for all its connections.
NewConnection(S, uri, n) ==
  Ok(Called([S EXCEPT !.conns = Append(@, [db |-> IF uri = MEMORY THEN n ELSE 0,
                                           open |-> TRUE, dirty |-> FALSE])],
            "sqlite3.connect", n), n)

sqlite3_connect(S, uri) ==
  IF uri = BADURI THEN Raise(S, "OperationalError")
  ELSE NewConnection(S, uri, Len(S.conns) + 1)

Connection_commit(S, c) ==
  IF ~S.conns[c].open THEN Raise(S, "ProgrammingError")
  ELSE Ok(Called([S EXCEPT !.conns[c].dirty = FALSE], "commit", c), RetNone)

\* An in-memory database ends with its connection.  dirty stays as it is: work
\* that was not committed when the connection closed never is.
CloseDb(S, c, d) ==
  [S EXCEPT !.conns[c].open = FALSE, !.dbs[d] = IF d = 0 THEN @ ELSE EmptyDb]

Connection_close(S, c) ==
  Ok(Called(CloseDb(S, c, S.conns[c].db), "close", c), RetNone)

HasColumns(cols, tcols) ==
  \A i \in 1..Len(cols) : \E j \in 1..Len(tcols) : cols[i] = tcols[j]

\* Whether preparing a parsed statement against database db fails.
PrepareFails(db, stmt) ==
  CASE stmt.k = "create" -> db[stmt.t].exists
    [] stmt.k = "drop" -> ~db[stmt.t].exists
    [] stmt.k = "insert" -> \/ ~db[stmt.t].exists
                            \/ ~HasColumns(stmt.cols, db[stmt.t].cols)
                            \/ stmt.nvals # Len(stmt.cols)
    [] stmt.k = "update" -> \/ ~db[stmt.t].exists
                            \/ ~HasColumns(stmt.cols, db[stmt.t].cols)
    [] stmt.k = "select" -> stmt.t # MASTER /\ ~db[stmt.t].exists

\* The database after a statement.
Effect(db, stmt) ==
  CASE stmt.k = "create" ->
         [db EXCEPT ![stmt.t] = [exists |-> TRUE, cols |-> stmt.cols, rows |-> 0]]
    [] stmt.k = "drop" -> [db EXCEPT ![stmt.t] = NoTable]
    [] stmt.k = "insert" -> [db EXCEPT ![stmt.t].rows = @ + 1]
    [] OTHER -> db

\* The first row of a statement's result.  Conditions are taken to hold of
\* every row.
Result(db, stmt, sql, binds) ==
  IF stmt.k # "select" THEN NoRow
  ELSE IF stmt.t = MASTER
    THEN IF First(sql, "name=?") # 0
         THEN Row(IF binds[1] \in Tables /\ db[binds[1]].exists THEN 1 ELSE 0)
         ELSE Row(Cardinality({t \in Tables : db[t].exists}))
  ELSE IF stmt.counting THEN Row(db[stmt.t].rows)
  ELSE IF db[stmt.t].rows > 0 THEN Row(TextCell) ELSE NoRow

\* In the sqlite3 module's default mode an INSERT or UPDATE opens a
\* transaction before the bindings are checked.
Begin(S, c, stmt) ==
  IF stmt.k \in {"insert", "update"} THEN [S EXCEPT !.conns[c].dirty = TRUE] ELSE S

Step(S, c, d, stmt, sql, binds) ==
  IF ~S.conns[c].open THEN Raise(S, "ProgrammingError")
  ELSE IF stmt.k = "syntax" THEN Raise(S, "OperationalError")
  ELSE IF PrepareFails(S.dbs[d], stmt) THEN Raise(S, "OperationalError")
  ELSE IF Len(binds) # NumBindings(sql) THEN Raise(Begin(S, c, stmt), "ProgrammingError")
  ELSE Ok([Begin(S, c, stmt) EXCEPT !.dbs[d] = Effect(@, stmt)],
          RetCursor(Result(S.dbs[d], stmt, sql, binds)))

\* Cursor.execute(sql, binds) on the cursor of connection c: the cursor, with
\* the statement's result.
Cursor_execute(S, c, sql, binds) ==
  Step(Called(S, "execute", c), c, S.conns[c].db, Parse(sql), sql, binds)

\* Cursor.fetchone(): the next row of the cursor.
fetchone(cursor) == cursor.row

\* ------------------------------------------------------------ the handle
\* A handle and its engine:
\*   db_uri, conn, cur, isConnect   the fields of SQLite3DB (0 is None; cur is
\*                                  the connection the cursor was made from)
\*   conns, dbs                     the connections opened, the databases
\*   log                            the engine calls of the running method
Blank ==
  [db_uri |-> NoneVal, conn |-> 0, cur |-> 0, isConnect |-> FALSE,
   conns |-> <<>>, dbs |-> [d \in 0..MaxConns |-> EmptyDb],
   log |-> <<>>]

connect(S, db_uri) ==
  IF db_uri = NoneVal
  THEN Then(sqlite3_connect(S, S.db_uri),
            LAMBDA r : Ok([r.st EXCEPT !.conn = r.ret], RetNone))
  ELSE Then(sqlite3_connect([S EXCEPT !.db_uri = db_uri], db_uri),
            LAMBDA r : Ok([r.st EXCEPT !.conn = r.ret, !.cur = r.ret,
                                       !.isConnect = TRUE],
                          RetConnection(r.ret)))

Cleared(S) ==
  [S EXCEPT !.isConnect = FALSE, !.conn = 0, !.cur = 0]

\* close that leaves the connected flag set.
close_keeps_flag(S) ==
  Then(Connection_commit(S, S.conn),
       LAMBDA r1 : Ok([Connection_close(r1.st, S.conn).st
                         EXCEPT !.conn = 0, !.cur = 0], RetNone))

close_connected(S) ==
  Then(Connection_commit(S, S.conn),
       LAMBDA r1 : Ok(Cleared(Connection_close(r1.st, S.conn).st), RetNone))

close(S) ==
  IF S.isConnect THEN close_connected(Called(S, "SQLite3DB.close", 0))
  ELSE Ok(Called(S, "SQLite3DB.close", 0), RetNone)

is_connected(S) == S.isConnect
get_cursor(S) == S.cur
get_connection(S) == S.conn

__init__(db_uri) == connect([Blank EXCEPT !.db_uri = db_uri], db_uri)

\* tuple(params): a tuple or a list gives a tuple of its items, an int is not
\* iterable.
CanTuple(params) == params.kind \in {"tuple", "list"}

\* cur.execute(...) ; self._conn.commit() ; return cur
execute_cursor(S, sql, binds) ==
  IF get_cursor(S) = 0 THEN Raise(S, "AttributeError")
  ELSE Then(Cursor_execute(S, get_cursor(S), sql, binds),
            LAMBDA r : Returning(Connection_commit(r.st, r.st.conn), r.ret))

auto_connect(S) ==
  IF ~is_connected(S) THEN connect(S, NoneVal) ELSE Ok(S, RetNone)

execute(S, sql, params) ==
  Then(auto_connect(S),
       LAMBDA r0 : IF params.kind # "None" /\ ~CanTuple(params)
                   THEN Raise(r0.st, "TypeError")
                   ELSE execute_cursor(r0.st, sql, params.items))

\* cur.executemany(sqls) lacks its second argument.
executemany(S, sqls, params) ==
  IF ~CanTuple(params) THEN Raise(S, "TypeError")
  ELSE Then(auto_connect(S),
            LAMBDA r0 : IF get_cursor(r0.st) = 0 THEN Raise(r0.st, "AttributeError")
                        ELSE Raise(r0.st, "TypeError"))

\* ------------------------------------------------------------ SQL builders
ParamsNone == [kind |-> "None", items |-> <<>>]
Tuple(items) == [kind |-> "tuple", items |-> items]
List(items) == [kind |-> "list", items |-> items]
IntArg == [kind |-> "int", items |-> <<>>]

OrderedDict(items) == [kind |-> "OrderedDict", items |-> items]
Dict(items) == [kind |-> "dict", items |-> items]
NoConditions == [kind |-> "None", items |-> <<>>]

sanitize_column(column) == <<SQ>> \o Fmt(column) \o <<SQ>>

sanitize_value(value) ==
  IF value = NoneVal THEN <<SQ, SQ>> ELSE <<SQ>> \o Fmt(value) \o <<SQ>>

\* condition_loop refusing an empty key as it refuses None.
RECURSIVE condition_loop_not_key(_, _, _)
condition_loop_not_key(items, i, condition_clause) ==
  IF i > Len(items) THEN [exc |-> NoExc, s |-> DropLast2(condition_clause)]
  ELSE IF items[i][1] \in {NoneVal, ""} THEN [exc |-> "ValueError", s |-> <<>>]
  ELSE condition_loop_not_key(items, i + 1,
         condition_clause \o Fmt(items[i][1]) \o <<SP>> \o Fmt(items[i][2])
                          \o <<COMMA, SP>>)

\* The loop of create_condition_clause_string from entry i on.
RECURSIVE condition_loop(_, _, _)
condition_loop(items, i, condition_clause) ==
  IF i > Len(items) THEN [exc |-> NoExc, s |-> DropLast2(condition_clause)]
  ELSE IF items[i][1] = NoneVal THEN [exc |-> "ValueError", s |-> <<>>]
  ELSE condition_loop(items, i + 1,
         condition_clause \o Fmt(items[i][1]) \o <<SP>> \o Fmt(items[i][2])
                          \o <<COMMA, SP>>)

create_condition_clause_string(conditions) ==
  IF conditions.kind = "None" THEN [exc |-> NoExc, s |-> <<>>]
  ELSE condition_loop(conditions.items, 1, <<>>)

_label_sanitizer(label) == <<SQ>> \o Fmt(label) \o <<SQ>>

\* structure_loop without the first flag: a comma before every column.
RECURSIVE structure_loop_comma(_, _, _)
structure_loop_comma(structure, i, strc) ==
  IF i > Len(structure) THEN strc \o <<RP>>
  ELSE structure_loop_comma(structure, i + 1,
         strc \o <<COMMA>> \o _label_sanitizer(structure[i][1]) \o <<SP>>
              \o Fmt(structure[i][2]))

RECURSIVE structure_loop(_, _, _)
structure_loop(structure, i, strc) ==
  IF i > Len(structure) THEN strc \o <<RP>>
  ELSE structure_loop(structure, i + 1,
         strc \o (IF i > 1 THEN <<COMMA>> ELSE <<>>)
              \o _label_sanitizer(structure[i][1]) \o <<SP>> \o Fmt(structure[i][2]))

create_table_sql(table_name, structure) ==
  <<"CREATE", SP, "TABLE", SP>> \o Fmt(table_name) \o <<SP>>
    \o structure_loop(structure, 1, <<LP>>)

drop_table_sql(table_name) == <<"DROP", SP, "TABLE", SP>> \o Fmt(table_name)

exists_sql ==
  <<"select", SP, "count(*)", SP, "from", SP, MASTER, SP,
    "where", SP, "type='table'", SP, "and", SP, "name=?">>

_select_clause_string(column) ==
  IF column = "*" THEN <<column>>
  ELSE IF column = "count(*)" THEN <<column>>
  ELSE <<DQ>> \o Fmt(column) \o <<DQ>>

RECURSIVE select_loop(_, _, _)
select_loop(select_columns, i, sql) ==
  IF i > Len(select_columns) THEN sql
  ELSE select_loop(select_columns, i + 1,
         sql \o (IF i > 1 THEN <<COMMA, SP>> ELSE <<>>)
             \o _select_clause_string(select_columns[i]))

select_sql(table_name, select_columns, where_clause) ==
  select_loop(select_columns, 1, <<"select", SP>>)
    \o <<SP, "from", SP>> \o Fmt(table_name) \o <<SP>> \o where_clause

\* The text _create_clause builds in its local _clause_string.
RECURSIVE clause_loop(_, _, _, _)
clause_loop(vals, type, i, s) ==
  IF i > Len(vals) THEN DropLast2(s) \o <<RP>>
  ELSE clause_loop(vals, type, i + 1,
         s \o (IF type = "COLUMN" THEN sanitize_column(vals[i]) \o <<COMMA, SP>>
               ELSE IF type = "VALUE" THEN sanitize_value(vals[i]) \o <<COMMA, SP>>
               ELSE <<>>))

_clause_string(vals, type) == clause_loop(vals, type, 1, <<LP>>)

\* _create_clause builds _clause_string and ends without a return statement.
_create_clause(vals, type) == NoneVal

RECURSIVE join_placeholders(_)
join_placeholders(n) ==
  IF n <= 0 THEN <<>>
  ELSE IF n = 1 THEN <<QM>>
  ELSE join_placeholders(n - 1) \o <<COMMA, SP, QM>>

insert_sql(table_name, columns) ==
  <<"insert", SP, "into", SP>> \o Fmt(table_name) \o <<SP>>
    \o Fmt(_create_clause(columns, "COLUMN")) \o <<SP, "VALUES", SP>>
    \o <<LP>> \o join_placeholders(Len(columns)) \o <<RP>>

RECURSIVE set_loop(_, _, _, _)
set_loop(columns, values, i, s) ==
  IF i > Len(columns) \/ i > Len(values) THEN DropLast2(s)
  ELSE set_loop(columns, values, i + 1,
         s \o sanitize_column(columns[i]) \o <<SP, "=", SP>>
           \o sanitize_value(values[i]) \o <<COMMA, SP>>)

update_sql(table_name, columns, values, where_clause_string) ==
  <<"update", SP>> \o Fmt(table_name) \o <<SP, "set", SP>>
    \o set_loop(columns, values, 1, <<>>) \o <<SP>> \o where_clause_string

\* ------------------------------------------------------------ table operations
\* count = cur.fetchone(); return count is not None
exists_row(S, count) == Ok(S, RetBool(~count.none))

exists(S, table_name) ==
  Then(execute(S, exists_sql, Tuple(<<table_name>>)),
       LAMBDA r : exists_row(r.st, fetchone(r.ret)))

create_table(S, table_name, structure) ==
  Returning(execute(S, create_table_sql(table_name, structure), ParamsNone), RetNone)

create_table_as_text_type(S, table_name, column_label) ==
  create_table(S, table_name,
               [i \in 1..Len(column_label) |-> <<column_label[i], "text">>])

drop_table(S, table_name) ==
  Returning(execute(S, drop_table_sql(table_name), ParamsNone), RetNone)

\* select with its where clause w built; the cursor execute returns is dropped.
select_where(S, table_name, select_columns, w) ==
  IF w.exc # NoExc THEN Raise(S, w.exc)
  ELSE Returning(execute(S, select_sql(table_name, select_columns, w.s), ParamsNone),
                 RetNone)

select(S, table_name, select_columns, conditions) ==
  IF conditions.kind # "OrderedDict" THEN Raise(S, "TypeError")
  ELSE select_where(S, table_name, select_columns,
                    create_condition_clause_string(conditions))

select_all(S, table_name, select_columns) ==
  select(S, table_name,
         IF select_columns.kind = "None" THEN <<"*">> ELSE select_columns.items,
         OrderedDict(<<>>))

\* query = <cursor>.fetchone(), then the first element of the row.
count_row(S, query) ==
  IF query.none THEN Raise(S, "LookupError") ELSE Ok(S, RetInt(query.first))

count(S, table_name) ==
  Then(select_all(S, table_name, Tuple(<<"count(*)">>)),
       LAMBDA r : IF r.ret.kind # "Cursor" THEN Raise(r.st, "AttributeError")
                  ELSE count_row(r.st, fetchone(r.ret)))

insert(S, table_name, columns, values) ==
  IF columns.kind # "tuple" \/ values.kind # "tuple" THEN Raise(S, "TypeError")
  ELSE Returning(execute(S, insert_sql(table_name, columns.items), values), RetNone)

update_where(S, table_name, columns, values, w) ==
  IF w.exc # NoExc THEN Raise(S, w.exc)
  ELSE Returning(execute(S, update_sql(table_name, columns.items, values.items, w.s),
                         ParamsNone), RetNone)

update(S, table_name, columns, values, where_conds) ==
  IF where_conds.kind \notin {"None", "OrderedDict"} THEN Raise(S, "TypeError")
  ELSE update_where(S, table_name, columns, values,
                    create_condition_clause_string(where_conds))

__enter__(S) == Ok(S, RetNone)
__exit__(S) == close(S)

\* ------------------------------------------------------------ inputs
ParamsIn == {ParamsNone, Tuple(<<>>), Tuple(<<"1">>), List(<<"1">>), IntArg}

\* Statements a caller hands to execute as they are.
RawInsert ==
  <<"insert", SP, "into", SP, "t", SP, LP, SQ, "a", SQ, RP, SP,
    "VALUES", SP, LP, QM, RP>>
RawMaster == <<"select", SP, "count(*)", SP, "from", SP, MASTER>>
RawSqls == {RawInsert, RawMaster}

Structures == {<<>>, << <<"a", "text">> >>, << <<"a", "text">>, <<"b", "text">> >>}
ColumnLabels == {<<"a">>, <<"a", "b">>}
InsertColumns == {Tuple(<<"a">>), Tuple(<<"a", "b">>), List(<<"a">>)}
InsertValues == {Tuple(<<"1">>), Tuple(<<"1", "2">>), List(<<"1">>)}
SelectColumns == {Tuple(<<"*">>), Tuple(<<"a", "b">>), Tuple(<<"count(*)">>)}
UpdateValues == {Tuple(<<"1">>), Tuple(<<NoneVal>>)}
ConditionsIn ==
  {OrderedDict(<<>>),
   OrderedDict(<< <<"where", "a=1">> >>),
   OrderedDict(<< <<"where", "a=1">>, <<"or", "b=2">> >>),
   OrderedDict(<< <<"", "a=1">> >>),
   OrderedDict(<< <<NoneVal, "a=1">> >>),
   OrderedDict(<< <<"where", "a=1">>, <<NoneVal, "b=2">> >>),
   Dict(<< <<"where", "a=1">> >>),
   NoConditions}

\* ------------------------------------------------------------ the machine
\* h      the handle and its engine after the last call, h.log that call's
\*        engine calls.  The rows of a statement's result travel with the
\*        cursor that execute returns (fetchone and fetchall of the handle
\*        are not among the calls).
\* last   the last call: its name, arguments, exception, return value, the
\*        state before it, and the call it directly followed (see After)
\* scope  the with statement over the handle: none, in, unwinding (a call in
\*        its body raised), exited
VARIABLES h, last, scope

vars == <<h, last, scope>>

Start == [h EXCEPT !.log = <<>>]

Bounded(S) ==
  /\ Len(S.conns) <= MaxConns
  /\ \A d \in DOMAIN S.dbs : \A t \in Tables : S.dbs[d][t].rows <= MaxRows

\* The call this one directly follows, when that is the one a claim speaks of:
\* an exists of the table a create_table has just made, a close after the
\* close of a connected handle.
After(op, args) ==
  IF /\ op = "exists"
     /\ last.op \in {"create_table", "create_table_as_text_type"}
     /\ last.exc = NoExc
     /\ last.args.table_name = args.table_name
  THEN "create_table"
  ELSE IF op = "close" /\ last.op = "close" /\ last.pre.isConnect THEN "close"
  ELSE ""

\* A method call with outcome r.
Do(op, args, r) ==
  /\ Bounded(r.st)
  /\ h' = r.st
  /\ last' = [op |-> op, args |-> args, exc |-> r.exc, ret |-> r.ret,
              pre |-> Start, after |-> After(op, args)]

\* A call by the handle's user; inside a with body an exception unwinds it.
Call(op, args, r) ==
  /\ scope # "unwinding"
  /\ Do(op, args, r)
  /\ scope' = IF scope = "in" /\ r.exc # NoExc THEN "unwinding" ELSE scope

Init ==
  \E db_uri \in GoodUris :
    /\ h = __init__(db_uri).st
    /\ last = [op |-> "__init__", args |-> [db_uri |-> db_uri], exc |-> NoExc,
               ret |-> RetNone, pre |-> Blank, after |-> ""]
    /\ scope = "none"

Connect ==
  \E db_uri \in Uris :
    Call("connect", [db_uri |-> db_uri], connect(Start, db_uri))

ConnectNoUri == Call("connect", [db_uri |-> NoneVal], connect(Start, NoneVal))

Close == Call("close", <<>>, close(Start))

Execute ==
  \E sql \in RawSqls, params \in ParamsIn :
    Call("execute", [sql |-> sql, params |-> params], execute(Start, sql, params))

ExecuteMany ==
  \E sqls \in {RawInsert}, params \in ParamsIn \ {ParamsNone} :
    Call("executemany", [sqls |-> sqls, params |-> params],
         executemany(Start, sqls, params))

Exists ==
  \E table_name \in Tables :
    Call("exists", [table_name |-> table_name], exists(Start, table_name))

CreateTable ==
  \E table_name \in Tables, structure \in Structures :
    Call("create_table", [table_name |-> table_name, structure |-> structure],
         create_table(Start, table_name, structure))

CreateTableAsTextType ==
  \E table_name \in Tables, column_label \in ColumnLabels :
    Call("create_table_as_text_type",
         [table_name |-> table_name, column_label |-> column_label],
         create_table_as_text_type(Start, table_name, column_label))

DropTable ==
  \E table_name \in Tables :
    Call("drop_table", [table_name |-> table_name], drop_table(Start, table_name))

Count ==
  \E table_name \in Tables :
    Call("count", [table_name |-> table_name], count(Start, table_name))

SelectAll ==
  \E table_name \in Tables, select_columns \in SelectColumns \cup {ParamsNone} :
    Call("select_all",
         [table_name |-> table_name, select_columns |-> select_columns],
         select_all(Start, table_name, select_columns))

Select ==
  \E table_name \in Tables, select_columns \in SelectColumns,
     conditions \in ConditionsIn :
    Call("select",
         [table_name |-> table_name, select_columns |-> select_columns,
          conditions |-> conditions],
         select(Start, table_name, select_columns.items, conditions))

Insert ==
  \E table_name \in Tables, columns \in InsertColumns, values \in InsertValues :
    Call("insert",
         [table_name |-> table_name, columns |-> columns, values |-> values],
         insert(Start, table_name, columns, values))

Update ==
  \E table_name \in Tables, values \in UpdateValues, where_conds \in ConditionsIn :
    Call("update",
         [table_name |-> table_name, columns |-> Tuple(<<"a">>),
          values |-> values, where_conds |-> where_conds],
         update(Start, table_name, Tuple(<<"a">>), values, where_conds))

\* A call of a method that only computes a text.
Pure(S, w) == IF w.exc # NoExc THEN Raise(S, w.exc) ELSE Ok(S, RetStr(w.s))

CreateConditionClauseString ==
  \E conditions \in ConditionsIn :
    Call("create_condition_clause_string", [conditions |-> conditions],
         Pure(Start, create_condition_clause_string(conditions)))

\* with handle: ... ; the body's calls are the actions above.
Enter ==
  /\ scope \in {"none", "exited"}
  /\ Do("__enter__", <<>>, __enter__(Start))
  /\ scope' = "in"

\* Leaving the body, normally or by an exception of one of its calls.
Exit ==
  /\ scope \in {"in", "unwinding"}
  /\ Do("__exit__",
        [exc_type |-> IF scope = "unwinding" THEN last.exc ELSE NoExc],
        __exit__(Start))
  /\ scope' = "exited"

\* Every call on one handle.
Next ==
  \/ Connect \/ ConnectNoUri \/ Close
  \/ Execute \/ ExecuteMany
  \/ Exists \/ CreateTable \/ CreateTableAsTextType \/ DropTable \/ Count
  \/ SelectAll \/ Select \/ Insert \/ Update
  \/ CreateConditionClauseString
  \/ Enter \/ Exit

Spec == Init /\ [][Next]_vars

\* The connection lifecycle: construct, connect, execute, close, with.
NextLifecycle ==
  \/ Connect \/ ConnectNoUri \/ Close
  \/ Execute \/ ExecuteMany
  \/ Enter \/ Exit

SpecLifecycle == Init /\ [][NextLifecycle]_vars

\* The table operations.
NextTables ==
  \/ ConnectNoUri \/ Close
  \/ Execute
  \/ Exists \/ CreateTable \/ CreateTableAsTextType \/ DropTable \/ Count
  \/ SelectAll \/ Insert

SpecTables == Init /\ [][NextTables]_vars

\* The calls that check the shape of their arguments.
NextShapes ==
  \/ Close
  \/ Execute \/ ExecuteMany
  \/ CreateTableAsTextType
  \/ Select \/ Insert \/ Update
  \/ CreateConditionClauseString

SpecShapes == Init /\ [][NextShapes]_vars

\* ------------------------------------------------------------ properties
\* The engine calls of a log: those on a connection.
EngineCalls(log) == SelectSeq(log, LAMBDA e : e.c # 0)

HasCall(log, f) == \E i \in 1..Len(log) : log[i].f = f

\* The handle and its engine, the log aside.
Fields(S) == [S EXCEPT !.log = <<>>]

\* The database the handle's cursor works on.
CursorDb(S) == S.dbs[S.conns[S.cur].db]

\* C1: in every reachable state the cursor is non-null iff the connected flag
\* is true, and the connection is non-null iff the connected flag is true.
C1_ValidIffConnected ==
  /\ (h.cur # 0) <=> h.isConnect
  /\ (h.conn # 0) <=> h.isConnect

\* C10: every connection the handle has ever opened is the one it holds in
\* its connection field or has been closed.
C10_NoLeakedConnection ==
  \A c \in 1..Len(h.conns) : h.conns[c].open => c = h.conn

\* C2: whenever the scope over a handle is exited, normally or by an error of
\* a call inside it, close() has run, every connection the handle opened is
\* committed and closed, and the handle is not connected.
C2_ScopeExitReleases ==
  last.op = "__exit__" =>
    /\ HasCall(h.log, "SQLite3DB.close")
    /\ \A c \in 1..Len(h.conns) : ~h.conns[c].open /\ ~h.conns[c].dirty
    /\ ~h.isConnect

\* C3: execute on a handle that is not connected connects to the stored URI,
\* executes the statement on a valid cursor, commits and returns the cursor;
\* it does not fail because of the missing connection.
C3_ExecuteAutoConnects ==
  (last.op = "execute" /\ ~last.pre.isConnect /\ last.pre.db_uri \in GoodUris) =>
    /\ last.exc # "AttributeError"
    /\ (last.args.sql = RawMaster /\ last.args.params.kind = "None") =>
         /\ last.exc = NoExc
         /\ last.ret.kind = "Cursor"
         /\ HasCall(h.log, "sqlite3.connect")
         /\ HasCall(h.log, "execute")
         /\ HasCall(h.log, "commit")
         /\ h.cur # 0

\* Arguments of the wrong shape: params no tuple can be made of, conditions
\* that are not an OrderedDict, columns or values that are not tuples.
TypeMismatch ==
  \/ last.op \in {"execute", "executemany"} /\ last.args.params.kind = "int"
  \/ last.op = "select" /\ last.args.conditions.kind # "OrderedDict"
  \/ last.op = "update" /\ last.args.where_conds.kind = "dict"
  \/ /\ last.op = "insert"
     /\ (last.args.columns.kind # "tuple" \/ last.args.values.kind # "tuple")

\* C4: a call given arguments of the wrong shape fails, and whatever state the
\* handle was in, it has opened no connection, executed no statement,
\* committed nothing, and connection, cursor and connected flag are unchanged.
C4_MismatchFailsUntouched ==
  TypeMismatch =>
    /\ last.exc # NoExc
    /\ EngineCalls(h.log) = <<>>
    /\ Fields(h) = last.pre

\* An insert of a columns tuple and a values tuple of equal length that name
\* columns of an existing table.
ValidInsert ==
  /\ last.op = "insert"
  /\ last.pre.cur # 0
  /\ last.args.columns.kind = "tuple" /\ last.args.values.kind = "tuple"
  /\ Len(last.args.columns.items) = Len(last.args.values.items)
  /\ CursorDb(last.pre)[last.args.table_name].exists
  /\ HasColumns(last.args.columns.items, CursorDb(last.pre)[last.args.table_name].cols)

\* C5: such an insert completes without error and the table then has exactly
\* one row more.
C5_InsertAddsOneRow ==
  ValidInsert =>
    /\ last.exc = NoExc
    /\ CursorDb(h)[last.args.table_name].rows
         = CursorDb(last.pre)[last.args.table_name].rows + 1

\* C6: count(table_name) on an existing table returns the number of its rows.
C6_CountReturnsRows ==
  (/\ last.op = "count"
   /\ last.pre.cur # 0
   /\ CursorDb(last.pre)[last.args.table_name].exists) =>
    /\ last.exc = NoExc
    /\ last.ret = RetInt(CursorDb(last.pre)[last.args.table_name].rows)

\* A create_table (or create_table_as_text_type) of a table that is not there
\* yet, with at least one column, on a connected handle.
ValidCreate ==
  /\ last.op \in {"create_table", "create_table_as_text_type"}
  /\ last.pre.isConnect
  /\ last.op = "create_table" => Len(last.args.structure) >= 1
  /\ ~CursorDb(last.pre)[last.args.table_name].exists

\* C7: create_table of a valid (table_name, structure) on a connected handle
\* completes and makes the table, and the exists(table_name) that follows it
\* returns true.
C7_CreateThenExists ==
  /\ ValidCreate =>
       /\ last.exc = NoExc
       /\ h.isConnect
       /\ CursorDb(h)[last.args.table_name].exists
  /\ (last.op = "exists" /\ last.after = "create_table") =>
       /\ last.exc = NoExc
       /\ last.ret = RetBool(TRUE)

C7_Witness ==
  /\ last.op = "exists" /\ last.after = "create_table"
  /\ last.ret = RetBool(TRUE)
  /\ CursorDb(h)[last.args.table_name].exists

\* C8: close() on a connected handle commits exactly once, closes the
\* connection, clears connection and cursor and resets the connected flag; a
\* close() on a handle that is not connected (a second close among them)
\* raises nothing, commits and closes nothing and leaves the handle as it was.
C8_CloseIdempotent ==
  last.op = "close" =>
    /\ last.exc = NoExc
    /\ IF last.pre.isConnect
       THEN /\ EngineCalls(h.log) = <<[f |-> "commit", c |-> last.pre.conn],
                                      [f |-> "close", c |-> last.pre.conn]>>
            /\ ~h.conns[last.pre.conn].open
            /\ h.conn = 0 /\ h.cur = 0 /\ ~h.isConnect
       ELSE /\ EngineCalls(h.log) = <<>>
            /\ Fields(h) = last.pre

C8_Witness ==
  /\ last.op = "close" /\ last.after = "close"
  /\ ~last.pre.isConnect
  /\ \E c \in 1..Len(h.conns) : ~h.conns[c].open

\* The entries in insertion order, each as "<key> <value>", joined by ", ".
RECURSIVE Joined(_)
Joined(items) ==
  IF items = <<>> THEN <<>>
  ELSE IF Len(items) = 1 THEN Fmt(items[1][1]) \o <<SP>> \o Fmt(items[1][2])
  ELSE Joined(SubSeq(items, 1, Len(items) - 1)) \o <<COMMA, SP>>
         \o Fmt(items[Len(items)][1]) \o <<SP>> \o Fmt(items[Len(items)][2])

HasKey(conditions, keys) ==
  \E i \in 1..Len(conditions.items) : conditions.items[i][1] \in keys

\* What C9 says with keys the keys that are refused.
C9_Clause(keys) ==
  /\ last.op = "create_condition_clause_string" =>
       IF HasKey(last.args.conditions, keys)
       THEN last.exc = "ValueError"
       ELSE last.exc = NoExc /\ last.ret = RetStr(Joined(last.args.conditions.items))
  /\ (/\ last.op = "select"
      /\ last.args.conditions.kind = "OrderedDict"
      /\ HasKey(last.args.conditions, keys)) =>
       last.exc = "ValueError" /\ EngineCalls(h.log) = <<>>
  /\ (/\ last.op = "update"
      /\ last.args.where_conds.kind = "OrderedDict"
      /\ HasKey(last.args.where_conds, keys)) =>
       last.exc = "ValueError" /\ EngineCalls(h.log) = <<>>

\* C9 as stated: create_condition_clause_string fails with a value error if
\* any key is empty or absent (the empty string as well as None), and then a
\* select or update that called it executes no statement; otherwise it returns
\* the entries in insertion order, joined by ", ".
C9_EmptyOrNoneKeyRefused == C9_Clause({NoneVal, ""})

\* C9 as amended: it fails with a value error if any key is None, and then a
\* select or update that called it executes no statement; otherwise (an empty
\* string key included) it returns the entries in insertion order, joined by
\* ", ".
C9_NoneKeyRefused == C9_Clause({NoneVal})

C9_Witness ==
  /\ last.op = "select"
  /\ last.args.conditions.kind = "OrderedDict"
  /\ HasKey(last.args.conditions, {NoneVal})
  /\ Len(last.args.conditions.items) = 2
  /\ last.exc = "ValueError"

=============================================================================
